---------------------------- MODULE Spec2Model ----------------------------
(***************************************************************************)
(* Model of the PCA9685 driver in src/src/lib.rs: the PCA9685 struct (its  *)
(* tracked oscillator frequency), the chip's registers behind the I2C bus, *)
(* and one action per public method.  Every bus transaction of a method is *)
(* recorded in `log`, in the order the method issues it, together with the *)
(* chip's MODE1 value at the moment of the transaction.                    *)
(***************************************************************************)
EXTENDS Integers, Sequences, FiniteSets, TLC

(***************************************************************************)
(* Register addresses and bit masks (lib.rs 6-74).                         *)
(***************************************************************************)
PCA9685_MODE1 == 0
PCA9685_MODE2 == 1
PCA9685_LED0_ON_L == 6
PCA9685_PRESCALE == 254

MODE1_SLEEP == 16
MODE1_AI == 32
MODE1_EXTCLK == 64
MODE1_RESTART == 128
MODE2_OUTDRV == 4

FREQUENCY_OSCILLATOR == 25000000
PCA9685_PRESCALE_MIN == 3
PCA9685_PRESCALE_MAX == 255

(***************************************************************************)
(* u8 arithmetic.                                                          *)
(***************************************************************************)
RECURSIVE Pow2(_)
Pow2(n) == IF n = 0 THEN 1 ELSE 2 * Pow2(n - 1)

RECURSIVE BitAndN(_, _, _)
BitAndN(a, b, n) ==
    IF n = 0 THEN 0
    ELSE (IF a % 2 = 1 /\ b % 2 = 1 THEN 1 ELSE 0)
         + 2 * BitAndN(a \div 2, b \div 2, n - 1)

\* a & b on u8
BitAnd(a, b) == BitAndN(a, b, 8)

RECURSIVE BitOrN(_, _, _)
BitOrN(a, b, n) ==
    IF n = 0 THEN 0
    ELSE (IF a % 2 = 1 \/ b % 2 = 1 THEN 1 ELSE 0)
         + 2 * BitOrN(a \div 2, b \div 2, n - 1)

\* a | b on u8
BitOr(a, b) == BitOrN(a, b, 8)

\* !a on u8
BitNot(a) == 255 - a

\* whether every bit of mask is set in v
HasBit(v, mask) == BitAnd(v, mask) = mask

(***************************************************************************)
(* f32 arithmetic of set_pwm_freq (lib.rs 202-207, 224).  A float is the   *)
(* record [neg, m, k] of value (+/-) m / 2^k with m < 2^24; every          *)
(* operation rounds to nearest, ties to even, as IEEE-754 binary32 does.   *)
(***************************************************************************)
RECURSIVE BitLen(_)
BitLen(n) == IF n = 0 THEN 0 ELSE 1 + BitLen(n \div 2)

\* m / 2^s rounded to the nearest integer, ties to even
RoundShift(m, s) ==
    IF s = 0 THEN m
    ELSE LET d == Pow2(s)
             q == m \div d
             r == m % d
         IN  IF 2 * r > d \/ (2 * r = d /\ q % 2 = 1) THEN q + 1 ELSE q

\* `n as f32` for a u32 n: the nearest integer with a 24-bit significand
U32AsF32(n) ==
    IF n < Pow2(24) THEN n
    ELSE LET s == BitLen(n) - 24 IN RoundShift(n, s) * Pow2(s)

\* acc and r after n more quotient bits of r / b
RECURSIVE LongDiv(_, _, _, _)
LongDiv(acc, r, b, n) ==
    IF n = 0 THEN <<acc, r>>
    ELSE LET bit == IF 2 * r >= b THEN 1 ELSE 0
         IN  LongDiv(2 * acc + bit, 2 * r - bit * b, b, n - 1)

\* the number of doublings that bring r (0 < r < b) to at least b
RECURSIVE Doublings(_, _)
Doublings(r, b) == IF r >= b THEN 0 ELSE 1 + Doublings(2 * r, b)

\* a / b in f32, for integers a >= 0 and b > 0 that are exact f32 values
F32Div(a, b) ==
    IF a = 0 THEN [neg |-> FALSE, m |-> 0, k |-> 0]
    ELSE LET q0 == a \div b
             r0 == a % b
             k  == IF q0 > 0 THEN 24 - BitLen(q0) ELSE 23 + Doublings(r0, b)
             d  == LongDiv(q0, r0, b, k)
             up == 2 * d[2] > b \/ (2 * d[2] = b /\ d[1] % 2 = 1)
             m  == IF up THEN d[1] + 1 ELSE d[1]
         IN  IF m = Pow2(24) THEN [neg |-> FALSE, m |-> Pow2(23), k |-> k - 1]
             ELSE [neg |-> FALSE, m |-> m, k |-> k]

\* x + 0.5 in f32, for x >= 0 below 2^23
F32AddHalf(x) ==
    CASE x.m = 0 -> [neg |-> FALSE, m |-> Pow2(23), k |-> 24]
      [] x.m > 0 /\ x.k >= 25 ->
            LET s == x.k - 24
                q == IF s >= 26 THEN 0 ELSE RoundShift(x.m, s)
            IN  [neg |-> FALSE, m |-> Pow2(23) + q, k |-> 24]
      [] x.m > 0 /\ x.k >= 1 /\ x.k <= 24 ->
            LET sum == x.m + Pow2(x.k - 1)
            IN  IF sum < Pow2(24) THEN [neg |-> FALSE, m |-> sum, k |-> x.k]
                ELSE [neg |-> FALSE, m |-> RoundShift(sum, 1), k |-> x.k - 1]

\* y - 1.0 in f32, for 0.5 <= y < 2^24: the difference is exact
F32SubOne(y) ==
    CASE y.k >= 0 /\ y.k <= 24 ->
            IF y.m >= Pow2(y.k)
            THEN [neg |-> FALSE, m |-> y.m - Pow2(y.k), k |-> y.k]
            ELSE [neg |-> TRUE, m |-> Pow2(y.k) - y.m, k |-> y.k]

\* p < n for a float p and a small integer n >= 0
F32LessInt(p, n) == p.neg \/ p.m \div Pow2(p.k) < n

\* p > n for a float p and a small integer n >= 0
F32GreaterInt(p, n) ==
    /\ ~p.neg
    /\ \/ p.m \div Pow2(p.k) > n
       \/ p.m \div Pow2(p.k) = n /\ p.m % Pow2(p.k) > 0

\* `p as u8`: truncation toward zero, saturating
F32AsU8(p) ==
    IF p.neg THEN 0
    ELSE LET t == p.m \div Pow2(p.k) IN IF t > 255 THEN 255 ELSE t

\* PrescaleVal without the "- 1.0"
PrescaleVal_NoMinusOne(osc, freq) ==
    F32AddHalf(F32Div(U32AsF32(osc), freq * 4096))

\* prescale_val of set_pwm_freq (lib.rs 202)
PrescaleVal(osc, freq) ==
    F32SubOne(F32AddHalf(F32Div(U32AsF32(osc), freq * 4096)))

\* the byte set_pwm_freq writes to PRESCALE (lib.rs 203-207, 224)
PrescaleByte(osc, freq) ==
    LET prescale_val == PrescaleVal(osc, freq)
    IN  IF F32LessInt(prescale_val, PCA9685_PRESCALE_MIN)
          THEN PCA9685_PRESCALE_MIN
        ELSE IF F32GreaterInt(prescale_val, PCA9685_PRESCALE_MAX)
          THEN PCA9685_PRESCALE_MAX
        ELSE F32AsU8(prescale_val)


(***************************************************************************)
(* State.  mode1, mode2, prescale_reg and led are the chip's registers;    *)
(* oscillator_freq is the driver's field.                                   *)
(* op, args, log, result and ret describe the last call: its name, its     *)
(* arguments, its bus transactions and delays in order, how it ended and   *)
(* the number it returned (get_prescale, get_osc_frequency).               *)
(***************************************************************************)
VARIABLES mode1, mode2, prescale_reg, led, oscillator_freq,
          op, args, log, result, ret

vars == <<mode1, mode2, prescale_reg, led, oscillator_freq,
          op, args, log, result, ret>>

\* the LEDn_ON_L .. LEDn_OFF_H registers of the 16 channels; led maps those
\* that hold a non-zero byte to it
LedRegs == PCA9685_LED0_ON_L .. (PCA9685_LED0_ON_L + 63)

\* led with the byte v stored at addr
LedStore(l, addr, v) ==
    LET others == DOMAIN l \ {addr}
    IN  [a \in (IF v = 0 THEN others ELSE others \cup {addr}) |->
            IF a = addr THEN v ELSE l[a]]

\* the byte led holds at addr
LedLoad(l, addr) == IF addr \in DOMAIN l THEN l[addr] ELSE 0

(***************************************************************************)
(* The bus and the chip behind it.  A call works on a record c: the chip's *)
(* registers, the log so far, the number n of bus transactions issued, the *)
(* result res so far and the byte buf of the last read.  Transaction       *)
(* number `fail` (0: none) is rejected by the bus and changes nothing.     *)
(***************************************************************************)
Entry(kind, reg, data, ok, c) ==
    [kind |-> kind, reg |-> reg, data |-> data, ok |-> ok, mode1 |-> c.mode1]

\* the chip stores one byte; PRESCALE is writable only while SLEEP is set
RegStore(c, addr, v) ==
    CASE addr = PCA9685_MODE1 -> [c EXCEPT !.mode1 = v]
      [] addr = PCA9685_MODE2 -> [c EXCEPT !.mode2 = v]
      [] addr = PCA9685_PRESCALE ->
            IF HasBit(c.mode1, MODE1_SLEEP) THEN [c EXCEPT !.prescale = v]
            ELSE c
      [] addr \in LedRegs -> [c EXCEPT !.led = LedStore(@, addr, v)]
      [] OTHER -> c

RegLoad(c, addr) ==
    CASE addr = PCA9685_MODE1 -> c.mode1
      [] addr = PCA9685_MODE2 -> c.mode2
      [] addr = PCA9685_PRESCALE -> c.prescale
      [] addr \in LedRegs -> LedLoad(c.led, addr)
      [] OTHER -> 0

\* the data bytes of one write: consecutive registers with auto-increment
\* on, the same register again and again with it off
RECURSIVE StoreBytes(_, _, _)
StoreBytes(c, addr, data) ==
    IF data = <<>> THEN c
    ELSE StoreBytes(RegStore(c, addr, Head(data)),
                    IF HasBit(c.mode1, MODE1_AI) THEN addr + 1 ELSE addr,
                    Tail(data))

\* self.bus.write(&vec![reg, data...])
bus_write(c, bytes, fail) ==
    LET n  == c.n + 1
        ok == n # fail
        logged == [c EXCEPT !.n = n,
                            !.log = Append(@, Entry("write", bytes[1],
                                                    Tail(bytes), ok, c)),
                            !.res = IF ok THEN "Ok" ELSE "Err"]
    IN  IF ok THEN StoreBytes(logged, bytes[1], Tail(bytes)) ELSE logged

\* self.bus.write_read(&vec![reg], &mut buf), buf starting as [0]
bus_write_read(c, reg, fail) ==
    LET n   == c.n + 1
        ok  == n # fail
        buf == IF ok THEN RegLoad(c, reg) ELSE 0
    IN  [c EXCEPT !.n = n,
                  !.log = Append(@, Entry("read", reg, <<buf>>, ok, c)),
                  !.res = IF ok THEN "Ok" ELSE "Err",
                  !.buf = buf]

\* task::sleep(Duration::from_millis(ms)).await
delay(c, ms) == [c EXCEPT !.log = Append(@, Entry("delay", 0, <<ms>>, TRUE, c))]

\* panic!(...)
panic(c) == [c EXCEPT !.res = "Panic"]

(***************************************************************************)
(* The methods of PCA9685, as functions of the record c they start from.   *)
(***************************************************************************)
\* reset writing a second time when its write is rejected
reset_Retry(c, fail) ==
    LET w1 == bus_write(c, <<PCA9685_MODE1, MODE1_RESTART>>, fail)
        w2 == bus_write(w1, <<PCA9685_MODE1, MODE1_RESTART>>, fail)
    IN  IF w1.res = "Err"
        THEN IF w2.res = "Err" THEN w2 ELSE delay(w2, 10)
        ELSE delay(w1, 10)

\* reset (lib.rs 121-129)
reset(c, fail) ==
    LET w == bus_write(c, <<PCA9685_MODE1, MODE1_RESTART>>, fail)
    IN  IF w.res = "Err" THEN w ELSE delay(w, 10)

\* sleep (lib.rs 131-147)
sleep(c, fail) ==
    LET r == bus_write_read(c, PCA9685_MODE1, fail)
    IN  IF r.res = "Err" THEN r
        ELSE LET awake == r.buf
                 asleep == BitOr(awake, MODE1_SLEEP)
                 w == bus_write(r, <<PCA9685_MODE1, asleep>>, fail)
             IN  IF w.res = "Err" THEN w ELSE delay(w, 5)

\* wakeup writing 0 to MODE1 in place of the value read with SLEEP cleared
wakeup_ClearsAll(c, fail) ==
    LET r == bus_write_read(c, PCA9685_MODE1, fail)
    IN  IF r.res = "Err" THEN r
        ELSE bus_write(r, <<PCA9685_MODE1, 0>>, fail)

\* wakeup (lib.rs 149-163)
wakeup(c, fail) ==
    LET r == bus_write_read(c, PCA9685_MODE1, fail)
    IN  IF r.res = "Err" THEN r
        ELSE LET asleep == r.buf
                 awake == BitAnd(asleep, BitNot(MODE1_SLEEP))
             IN  bus_write(r, <<PCA9685_MODE1, awake>>, fail)

\* ChannelInRange accepting channel 16
ChannelInRange_OffByOne(channel) == ~(channel > 16)

\* the channel check of set_pwm (lib.rs 274)
ChannelInRange(channel) == ~(channel > 15)

\* set_pwm sending each value high byte first
set_pwm_HighFirst(c, channel, on, off, fail) ==
    LET on_bytes  == <<on \div 256, on % 256>>
        off_bytes == <<off \div 256, off % 256>>
    IN  IF ~ChannelInRange(channel) THEN panic(c)
        ELSE bus_write(c, <<PCA9685_LED0_ON_L + 4 * channel,
                            on_bytes[1], on_bytes[2],
                            off_bytes[1], off_bytes[2]>>, fail)

\* set_pwm (lib.rs 270-285)
set_pwm(c, channel, on, off, fail) ==
    LET on_bytes  == <<on \div 256, on % 256>>
        off_bytes == <<off \div 256, off % 256>>
    IN  IF ~ChannelInRange(channel) THEN panic(c)
        ELSE bus_write(c, <<PCA9685_LED0_ON_L + 4 * channel,
                            on_bytes[2], on_bytes[1],
                            off_bytes[2], off_bytes[1]>>, fail)

\* PinTicks without the clamp of on_tick to 4095
PinTicks_NoClamp(tick, invert) ==
    LET on_tick == tick
    IN  IF invert
        THEN IF on_tick = 0 THEN <<4096, 0>>
             ELSE IF on_tick = 4095 THEN <<0, 4096>>
             ELSE <<0, (4095 - on_tick) % 65536>>
        ELSE IF on_tick = 4095 THEN <<4096, 0>>
             ELSE IF on_tick = 0 THEN <<0, 4096>>
             ELSE <<0, on_tick>>

\* the (on, off) pair set_pin passes to set_pwm (lib.rs 244-264)
PinTicks(tick, invert) ==
    LET on_tick == IF tick > 4095 THEN 4095 ELSE tick
    IN  IF invert
        THEN IF on_tick = 0 THEN <<4096, 0>>
             ELSE IF on_tick = 4095 THEN <<0, 4096>>
             ELSE <<0, 4095 - on_tick>>
        ELSE IF on_tick = 4095 THEN <<4096, 0>>
             ELSE IF on_tick = 0 THEN <<0, 4096>>
             ELSE <<0, on_tick>>

\* set_pin (lib.rs 243-266)
set_pin(c, channel, on_tick, invert, fail) ==
    LET t == PinTicks(on_tick, invert)
    IN  set_pwm(c, channel, t[1], t[2], fail)

\* get_prescale reading MODE1 in place of PRESCALE
get_prescale_ReadsMode1(c, fail) == bus_write_read(c, PCA9685_MODE1, fail)

\* get_prescale (lib.rs 297-301): buf is the value returned
get_prescale(c, fail) == bus_write_read(c, PCA9685_PRESCALE, fail)

\* write_micros (lib.rs 167-189)
write_micros(c, osc, channel, micros, fail) ==
    LET g == get_prescale(c, fail)
    IN  IF g.res = "Err" THEN g
        ELSE LET prescale == g.buf + 1
                 scaled == 1000000 * prescale
             IN  IF osc = 0 THEN panic(g)
                 ELSE LET pulselength == scaled \div osc
                          divisor == pulselength % 65536
                      IN  IF divisor = 0 THEN panic(g)
                          ELSE set_pwm(g, channel, 0, micros \div divisor, fail)

\* SleepMode without the "| MODE1_SLEEP"
SleepMode_NoSleep(oldmode) == BitAnd(oldmode, BitNot(MODE1_RESTART))

\* newmode of set_ext_clock (lib.rs 313)
SleepMode(oldmode) ==
    BitOr(BitAnd(oldmode, BitNot(MODE1_RESTART)), MODE1_SLEEP)

\* the MODE1 value set_ext_clock wakes the chip with (lib.rs 333)
WakeMode(newmode) ==
    BitOr(BitOr(BitAnd(newmode, BitNot(MODE1_SLEEP)), MODE1_RESTART), MODE1_AI)

\* set_ext_clock (lib.rs 304-339)
set_ext_clock(c, prescale, fail) ==
    LET r == bus_write_read(c, PCA9685_MODE1, fail)
    IN  IF r.res = "Err" THEN r
        ELSE LET oldmode == r.buf
                 newmode == SleepMode(oldmode)
                 w1 == bus_write(r, <<PCA9685_MODE1, newmode>>, fail)
             IN  IF w1.res = "Err" THEN w1
                 ELSE LET w2 == bus_write(w1, <<PCA9685_PRESCALE, prescale>>, fail)
                      IN  IF w2.res = "Err" THEN w2
                          ELSE bus_write(delay(w2, 5),
                                         <<PCA9685_MODE1, WakeMode(newmode)>>,
                                         fail)

\* the frequency check of set_pwm_freq (lib.rs 196-200)
FreqAccepted(freq) == ~(freq < 1) /\ ~(freq > 3052)

\* set_pwm_freq (lib.rs 195-239); checks is the build's overflow checking
set_pwm_freq(c, osc, freq, checks, fail) ==
    IF ~FreqAccepted(freq) THEN panic(c)
    ELSE LET prescale == PrescaleByte(osc, freq)
             r == bus_write_read(c, PCA9685_MODE1, fail)
         IN  IF r.res = "Err" THEN r
             ELSE LET oldmode == r.buf
                      product == oldmode * BitNot(MODE1_RESTART)
                  IN  IF product > 255 /\ checks THEN panic(r)
                      ELSE LET newmode == BitOr(product % 256, MODE1_SLEEP)
                               w1 == bus_write(r, <<PCA9685_MODE1, newmode>>, fail)
                               w2 == bus_write(w1, <<PCA9685_PRESCALE, prescale>>, fail)
                               w3 == bus_write(w2, <<PCA9685_MODE1, oldmode>>, fail)
                           IN  IF w1.res = "Err" THEN w1
                               ELSE IF w2.res = "Err" THEN w2
                               ELSE IF w3.res = "Err" THEN w3
                               ELSE delay(w3, 5)

\* begin (lib.rs 101-119)
begin(c, osc, prescale, checks, fail) ==
    IF prescale = 0 THEN set_pwm_freq(c, osc, 1000, checks, fail)
    ELSE IF prescale < PCA9685_PRESCALE_MIN THEN panic(c)
    ELSE IF prescale > PCA9685_PRESCALE_MAX THEN panic(c)
    ELSE LET e == set_ext_clock(c, prescale, fail)
         IN  IF e.res = "Err" THEN e ELSE reset(e, fail)

\* set_output_mode (lib.rs 344-367)
set_output_mode(c, totempole, fail) ==
    LET r == bus_write_read(c, PCA9685_MODE2, fail)
    IN  IF r.res = "Err" THEN r
        ELSE LET oldmode == r.buf
                 newmode == IF totempole THEN BitOr(oldmode, MODE2_OUTDRV)
                            ELSE BitAnd(oldmode, BitNot(MODE2_OUTDRV))
             IN  bus_write(r, <<PCA9685_MODE2, newmode>>, fail)

(***************************************************************************)
(* Actions: one call of a public method by the single owner.  A panic ends *)
(* the program.                                                            *)
(***************************************************************************)
\* the record a call starts from
Start ==
    [mode1 |-> mode1, mode2 |-> mode2, prescale |-> prescale_reg, led |-> led,
     log |-> <<>>, n |-> 0, res |-> "Ok", buf |-> 0]

Running == result # "Panic"

\* the state a call leaves: the chip as in c, and the record of the call
Finish(name, a, c, osc, r) ==
    /\ mode1' = c.mode1
    /\ mode2' = c.mode2
    /\ prescale_reg' = c.prescale
    /\ led' = c.led
    /\ oscillator_freq' = osc
    /\ op' = name
    /\ args' = a
    /\ log' = c.log
    /\ result' = c.res
    /\ ret' = r

\* set_osc_frequency (lib.rs 293-295)
set_osc_frequency(freq) == freq

\* checks: whether the build panics on integer overflow (debug) or wraps
\* (release)
DoBegin(prescale, checks, fail) ==
    /\ Running
    /\ Finish("begin", <<prescale>>,
              begin(Start, oscillator_freq, prescale, checks, fail),
              IF prescale = 0 THEN oscillator_freq
              ELSE set_osc_frequency(oscillator_freq), 0)

DoReset(fail) ==
    /\ Running
    /\ Finish("reset", <<>>, reset(Start, fail), oscillator_freq, 0)

DoSleep(fail) ==
    /\ Running
    /\ Finish("sleep", <<>>, sleep(Start, fail), oscillator_freq, 0)

DoWakeup(fail) ==
    /\ Running
    /\ Finish("wakeup", <<>>, wakeup(Start, fail), oscillator_freq, 0)

DoWriteMicros(channel, micros, fail) ==
    /\ Running
    /\ Finish("write_micros", <<channel, micros>>,
              write_micros(Start, oscillator_freq, channel, micros, fail),
              oscillator_freq, 0)

DoSetPwmFreq(freq, checks, fail) ==
    /\ Running
    /\ Finish("set_pwm_freq", <<freq>>,
              set_pwm_freq(Start, oscillator_freq, freq, checks, fail),
              oscillator_freq, 0)

DoSetPin(channel, on_tick, invert, fail) ==
    /\ Running
    /\ Finish("set_pin", <<channel, on_tick, IF invert THEN 1 ELSE 0>>,
              set_pin(Start, channel, on_tick, invert, fail), oscillator_freq, 0)

DoSetPwm(channel, on, off, fail) ==
    /\ Running
    /\ Finish("set_pwm", <<channel, on, off>>,
              set_pwm(Start, channel, on, off, fail), oscillator_freq, 0)

\* get_osc_frequency (lib.rs 288-290)
DoGetOscFrequency ==
    /\ Running
    /\ Finish("get_osc_frequency", <<>>, Start, oscillator_freq, oscillator_freq)

DoSetOscFrequency(freq) ==
    /\ Running
    /\ Finish("set_osc_frequency", <<freq>>, Start, set_osc_frequency(freq), 0)

DoGetPrescale(fail) ==
    /\ Running
    /\ LET g == get_prescale(Start, fail)
       IN  Finish("get_prescale", <<>>, g, oscillator_freq, g.buf)

DoSetExtClock(prescale, fail) ==
    /\ Running
    /\ Finish("set_ext_clock", <<prescale>>,
              set_ext_clock(Start, prescale, fail), oscillator_freq, 0)

DoSetOutputMode(totempole, fail) ==
    /\ Running
    /\ Finish("set_output_mode", <<IF totempole THEN 1 ELSE 0>>,
              set_output_mode(Start, totempole, fail), oscillator_freq, 0)

(***************************************************************************)
(* Spec: any sequence of calls, from every MODE1 value, in either build    *)
(* profile, with any one bus transaction of a call allowed to fail.  The   *)
(* channel calls name channel 0 or the invalid channel 16.                 *)
(***************************************************************************)
\* the most bus transactions one call issues (begin: 5)
MaxFail == 5

\* which transaction of a call of at most k transactions fails (0: none)
FailPoints(k) == {f \in 0 .. MaxFail : f <= k}

\* channel arguments: 0 .. 15 are valid
MaxChannel == 16

Channels == {0, MaxChannel}
Prescales == {0, 2, 30}
Freqs == {0, 1000, 3053}
OscFreqs == {FREQUENCY_OSCILLATOR}

\* the chip's other registers: OUTDRV set, PRESCALE 30, every channel 0
Init ==
    /\ mode1 \in 0 .. 255
    /\ mode2 = MODE2_OUTDRV
    /\ prescale_reg = 30
    /\ led = [a \in {} |-> 0]
    /\ oscillator_freq = FREQUENCY_OSCILLATOR
    /\ op = "new"
    /\ args = <<>>
    /\ log = <<>>
    /\ result = "Ok"
    /\ ret = 0

Begin ==
    \E p \in Prescales, checks \in BOOLEAN, fail \in FailPoints(5) :
        DoBegin(p, checks, fail)
Reset == \E fail \in FailPoints(1) : DoReset(fail)
Sleep == \E fail \in FailPoints(2) : DoSleep(fail)
Wakeup == \E fail \in FailPoints(2) : DoWakeup(fail)
WriteMicros ==
    \E ch \in Channels, fail \in FailPoints(2) : DoWriteMicros(ch, 0, fail)
SetPwmFreq ==
    \E f \in Freqs, checks \in BOOLEAN, fail \in FailPoints(4) :
        DoSetPwmFreq(f, checks, fail)
SetPin ==
    \E inv \in BOOLEAN, fail \in FailPoints(1) :
        DoSetPin(MaxChannel, 0, inv, fail)
SetPwm ==
    \E ch \in Channels, fail \in FailPoints(1) : DoSetPwm(ch, 0, 0, fail)
GetOscFrequency == DoGetOscFrequency
SetOscFrequency == \E f \in OscFreqs : DoSetOscFrequency(f)
GetPrescale == \E fail \in FailPoints(1) : DoGetPrescale(fail)
SetExtClock ==
    \E p \in Prescales \ {0}, fail \in FailPoints(4) : DoSetExtClock(p, fail)
SetOutputMode == \E fail \in FailPoints(2) : DoSetOutputMode(TRUE, fail)

Next ==
    \/ Begin
    \/ Reset
    \/ Sleep
    \/ Wakeup
    \/ WriteMicros
    \/ SetPwmFreq
    \/ SetPin
    \/ SetPwm
    \/ GetOscFrequency
    \/ SetOscFrequency
    \/ GetPrescale
    \/ SetExtClock
    \/ SetOutputMode

Spec == Init /\ [][Next]_vars

(***************************************************************************)
(* CallSpec: one call of a channel or output-mode method, with arguments   *)
(* over their ranges, from a chip in any of a set of register states.      *)
(***************************************************************************)
\* on_tick arguments: the ends, the values around the clamp at 4095, u16's
\* maximum
TickSamples == {0, 1, 2047, 4094, 4095, 4096, 65535}
PulseSamples == {<<0, 0>>, <<291, 1110>>, <<4096, 0>>, <<65535, 65535>>}
MicrosSamples == {0, 1500, 65535}

\* MODE1 at the call: awake or asleep, auto-increment off or on
Mode1Samples == {1, 17, 33, 49}
Mode2Samples == {0, MODE2_OUTDRV, 27, 31}
PrescaleSamples == {3, 30, 121, 255}
OscSamples == {0, FREQUENCY_OSCILLATOR}

\* the channel registers at the call: all 0, or all holding 0xAA
LedSamples == {[a \in {} |-> 0], [a \in LedRegs |-> 170]}

CallInit ==
    /\ mode1 \in Mode1Samples
    /\ mode2 \in Mode2Samples
    /\ prescale_reg \in PrescaleSamples
    /\ led \in LedSamples
    /\ oscillator_freq \in OscSamples
    /\ op = "new"
    /\ args = <<>>
    /\ log = <<>>
    /\ result = "Ok"
    /\ ret = 0

Fresh == op = "new"

CallSetPin ==
    /\ Fresh
    /\ \E ch \in 0 .. MaxChannel, t \in TickSamples, inv \in BOOLEAN,
          fail \in FailPoints(1) : DoSetPin(ch, t, inv, fail)
CallSetPwm ==
    /\ Fresh
    /\ \E ch \in 0 .. MaxChannel, p \in PulseSamples, fail \in FailPoints(1) :
          DoSetPwm(ch, p[1], p[2], fail)
CallWriteMicros ==
    /\ Fresh
    /\ \E ch \in 0 .. MaxChannel, us \in MicrosSamples, fail \in FailPoints(2) :
          DoWriteMicros(ch, us, fail)
CallSetOutputMode ==
    /\ Fresh
    /\ \E t \in BOOLEAN, fail \in FailPoints(2) : DoSetOutputMode(t, fail)

CallNext ==
    \/ CallSetPin
    \/ CallSetPwm
    \/ CallWriteMicros
    \/ CallSetOutputMode

CallSpec == CallInit /\ [][CallNext]_vars

(***************************************************************************)
(* FreqSpec: set_pwm_freq for every frequency around and inside the        *)
(* accepted range, with the tracked oscillator frequency at its default or *)
(* set by the caller beforehand.                                           *)
(***************************************************************************)
\* frequencies 0 .. MaxFreq Hz: 1 .. 3052 are accepted
MaxFreq == 3053

\* the default, and external clocks of 26.490879 MHz, 50 MHz and 1 MHz
FreqOscSamples == {FREQUENCY_OSCILLATOR, 26490879, 50000000, 1000000}

FreqInit ==
    /\ mode1 \in {0, 17}
    /\ mode2 = MODE2_OUTDRV
    /\ prescale_reg = 30
    /\ led = [a \in {} |-> 0]
    /\ oscillator_freq = FREQUENCY_OSCILLATOR
    /\ op = "new"
    /\ args = <<>>
    /\ log = <<>>
    /\ result = "Ok"
    /\ ret = 0

FreqSetOscFrequency ==
    /\ Fresh
    /\ \E f \in FreqOscSamples : DoSetOscFrequency(f)
FreqSetPwmFreq ==
    /\ op \in {"new", "set_osc_frequency"}
    /\ \E f \in 0 .. MaxFreq, checks \in BOOLEAN : DoSetPwmFreq(f, checks, 0)

FreqNext ==
    \/ FreqSetOscFrequency
    \/ FreqSetPwmFreq

FreqSpec == FreqInit /\ [][FreqNext]_vars

(***************************************************************************)
(* TripSpec: one call that writes PRESCALE (set_ext_clock or begin with    *)
(* every prescale 3 .. 255, begin(0), set_pwm_freq), from every MODE1      *)
(* value, followed by one get_prescale.                                    *)
(***************************************************************************)
TripPrescales == PCA9685_PRESCALE_MIN .. PCA9685_PRESCALE_MAX
TripFreqs == {50, 1000}

TripInit ==
    /\ mode1 \in 0 .. 255
    /\ mode2 = MODE2_OUTDRV
    /\ prescale_reg = 30
    /\ led = [a \in {} |-> 0]
    /\ oscillator_freq = FREQUENCY_OSCILLATOR
    /\ op = "new"
    /\ args = <<>>
    /\ log = <<>>
    /\ result = "Ok"
    /\ ret = 0

TripSetExtClock ==
    /\ Fresh
    /\ \E p \in TripPrescales, fail \in FailPoints(4) : DoSetExtClock(p, fail)
TripBegin ==
    /\ Fresh
    /\ \E p \in {0} \cup TripPrescales, checks \in BOOLEAN,
          fail \in FailPoints(5) : DoBegin(p, checks, fail)
TripSetPwmFreq ==
    /\ Fresh
    /\ \E f \in TripFreqs, checks \in BOOLEAN, fail \in FailPoints(4) :
          DoSetPwmFreq(f, checks, fail)
TripGetPrescale ==
    /\ op \in {"set_ext_clock", "begin", "set_pwm_freq"}
    /\ \E fail \in FailPoints(1) : DoGetPrescale(fail)

TripNext ==
    \/ TripSetExtClock
    \/ TripBegin
    \/ TripSetPwmFreq
    \/ TripGetPrescale

TripSpec == TripInit /\ [][TripNext]_vars

(***************************************************************************)
(* OneSpec: one call of any method that uses the bus, from every MODE1     *)
(* value, with the tracked oscillator frequency at its default or changed  *)
(* by the caller, and any one of the call's transactions failing.          *)
(***************************************************************************)
OneOscSamples == {FREQUENCY_OSCILLATOR, 50000000}

OneInit ==
    /\ mode1 \in 0 .. 255
    /\ mode2 = MODE2_OUTDRV
    /\ prescale_reg = 30
    /\ led = [a \in {} |-> 0]
    /\ oscillator_freq \in OneOscSamples
    /\ op = "new"
    /\ args = <<>>
    /\ log = <<>>
    /\ result = "Ok"
    /\ ret = 0

OneBegin == Fresh /\ Begin
OneReset == Fresh /\ Reset
OneSleep == Fresh /\ Sleep
OneWakeup == Fresh /\ Wakeup
OneWriteMicros == Fresh /\ WriteMicros
OneSetPwmFreq == Fresh /\ SetPwmFreq
OneSetPin ==
    /\ Fresh
    /\ \E inv \in BOOLEAN, fail \in FailPoints(1) : DoSetPin(0, 0, inv, fail)
OneSetPwm == Fresh /\ SetPwm
OneGetPrescale == Fresh /\ GetPrescale
OneSetExtClock == Fresh /\ SetExtClock
OneSetOutputMode ==
    /\ Fresh
    /\ \E t \in BOOLEAN, fail \in FailPoints(2) : DoSetOutputMode(t, fail)

OneNext ==
    \/ OneBegin
    \/ OneReset
    \/ OneSleep
    \/ OneWakeup
    \/ OneWriteMicros
    \/ OneSetPwmFreq
    \/ OneSetPin
    \/ OneSetPwm
    \/ OneGetPrescale
    \/ OneSetExtClock
    \/ OneSetOutputMode

OneSpec == OneInit /\ [][OneNext]_vars

(***************************************************************************)
(* Properties.                                                             *)
(***************************************************************************)
\* the positions in the log of the write transactions, of those to register r
WriteIdx == {i \in DOMAIN log : log[i].kind = "write"}
WritesTo(r) == {i \in WriteIdx : log[i].reg = r}

\* C1: every write transaction to PRESCALE, accepted by the bus or not, is
\* issued while the chip's MODE1 SLEEP bit is set.
C1_PrescaleWrittenAsleep ==
    \A i \in WritesTo(PCA9685_PRESCALE) : HasBit(log[i].mode1, MODE1_SLEEP)

\* C1 witness: a call that found the chip awake has written PRESCALE.
C1_Witness ==
    /\ op \in {"set_pwm_freq", "set_ext_clock", "begin"}
    /\ log # <<>>
    /\ log[1].kind = "read" /\ log[1].reg = PCA9685_MODE1
    /\ ~HasBit(log[1].data[1], MODE1_SLEEP)
    /\ \E i \in WritesTo(PCA9685_PRESCALE) : log[i].ok

\* C2: when set_pwm_freq returns Ok its transactions are a MODE1 write
\* setting SLEEP, then the PRESCALE write, then a last MODE1 write, then the
\* delay; and the last MODE1 value has SLEEP clear, RESTART set and AI set.
C2_SetPwmFreqSequence ==
    (op = "set_pwm_freq" /\ result = "Ok") =>
        \E i, j, k \in WriteIdx :
            /\ i < j /\ j < k /\ k < Len(log)
            /\ log[i].reg = PCA9685_MODE1
            /\ HasBit(log[i].data[1], MODE1_SLEEP)
            /\ log[j].reg = PCA9685_PRESCALE
            /\ log[k].reg = PCA9685_MODE1
            /\ \A w \in WriteIdx : w <= k
            /\ log[Len(log)].kind = "delay"
            /\ ~HasBit(log[k].data[1], MODE1_SLEEP)
            /\ HasBit(log[k].data[1], MODE1_RESTART)
            /\ HasBit(log[k].data[1], MODE1_AI)

\* C3: sleep called while the chip's MODE1 SLEEP bit is already set issues
\* no register write.
C3_SleepIdempotent ==
    ( /\ op = "sleep"
      /\ log # <<>>
      /\ log[1].ok
      /\ HasBit(log[1].data[1], MODE1_SLEEP) ) => WriteIdx = {}

\* C4: set_output_mode writes MODE2 only when the requested mode differs
\* from the OUTDRV bit it read, and issues no write when they agree.
C4_OutputModeIdempotent ==
    (op = "set_output_mode" /\ log # <<>> /\ log[1].ok) =>
        LET current == HasBit(log[1].data[1], MODE2_OUTDRV)
            wanted  == args[1] = 1
        IN  IF current = wanted THEN WriteIdx = {}
            ELSE WriteIdx = WritesTo(PCA9685_MODE2) /\ WriteIdx # {}

\* the (ON, OFF) pair the claim gives for an on_tick and invert
C5_Expected(tick, invert) ==
    LET t == IF tick > 4095 THEN 4095 ELSE tick
    IN  CASE ~invert /\ t = 0 -> <<0, 4096>>
          [] ~invert /\ t = 4095 -> <<4096, 0>>
          [] invert /\ t = 0 -> <<4096, 0>>
          [] invert /\ t = 4095 -> <<0, 4096>>
          [] OTHER -> <<0, IF invert THEN 4095 - t ELSE t>>

\* C5: for a channel in 0..15, set_pin issues exactly one write, to the
\* channel's registers, carrying the (ON, OFF) pair of the claim's table for
\* the on_tick clamped to 4095.
C5_SetPinEncoding ==
    (op = "set_pin" /\ args[1] <= 15) =>
        /\ Len(log) = 1
        /\ log[1].kind = "write"
        /\ log[1].reg = PCA9685_LED0_ON_L + 4 * args[1]
        /\ Len(log[1].data) = 4
        /\ <<log[1].data[1] + 256 * log[1].data[2],
             log[1].data[3] + 256 * log[1].data[4]>>
               = C5_Expected(args[2], args[3] = 1)

\* C5 witness: an inverted set_pin on channel 15 with an on_tick above the
\* clamp has been written.
C5_Witness ==
    /\ op = "set_pin" /\ args = <<15, 65535, 1>> /\ result = "Ok"
    /\ log[1].data = <<0, 0, 0, 16>>

\* whether the last call is a channel call with a channel index above 15
BadChannelCall ==
    op \in {"set_pwm", "set_pin", "write_micros"} /\ args[1] > 15

At200Hz ==
    /\ op = "set_pwm_freq" /\ args[1] = 200
    /\ oscillator_freq = FREQUENCY_OSCILLATOR

\* C7 as stated: at 25 MHz, set_pwm_freq(200) writes 14 to PRESCALE.
C7_Writes14 ==
    At200Hz => \A i \in WritesTo(PCA9685_PRESCALE) : log[i].data = <<14>>

\* C7 amended: at 25 MHz, set_pwm_freq(200) writes 30 (0x1E) to PRESCALE
\* whenever it issues its PRESCALE write, which it does when it returns Ok.
C7_Writes30 ==
    At200Hz =>
        /\ \A i \in WritesTo(PCA9685_PRESCALE) : log[i].data = <<30>>
        /\ result = "Ok" => WritesTo(PCA9685_PRESCALE) # {}

\* C7 witness: set_pwm_freq(200) at 25 MHz has returned Ok.
C7_Witness ==
    At200Hz /\ result = "Ok" /\ \E i \in WritesTo(PCA9685_PRESCALE) : log[i].ok

\* clamp(round_half_up(osc / (4096 f)) - 1, 3, 255), in exact arithmetic
C8_Ideal(osc, f) ==
    LET r == ((2 * osc + 4096 * f) \div (8192 * f)) - 1
    IN  IF r < 3 THEN 3 ELSE IF r > 255 THEN 255 ELSE r

\* C8: for every accepted frequency and tracked oscillator_freq, the value
\* set_pwm_freq writes to PRESCALE is clamp(round_half_up(osc/(4096 f)) - 1,
\* 3, 255).
C8_PrescaleIsIdeal ==
    op = "set_pwm_freq" =>
        \A i \in WritesTo(PCA9685_PRESCALE) :
            log[i].data = <<C8_Ideal(oscillator_freq, args[1])>>

\* C9: every value written to PRESCALE lies in 3..255, and begin and
\* set_ext_clock reject a prescale outside it (0 apart, begin's default)
\* before any bus transaction.
C9_PrescaleInRange ==
    /\ \A i \in WritesTo(PCA9685_PRESCALE) :
           /\ log[i].data[1] >= PCA9685_PRESCALE_MIN
           /\ log[i].data[1] <= PCA9685_PRESCALE_MAX
    /\ ( /\ op \in {"begin", "set_ext_clock"}
         /\ \/ args[1] > PCA9685_PRESCALE_MAX
            \/ args[1] < PCA9685_PRESCALE_MIN /\ ~(op = "begin" /\ args[1] = 0) )
       => (log = <<>> /\ result = "Panic")

\* C10: after set_ext_clock returns Ok, MODE1 has EXTCLK set, written by a
\* MODE1 write issued while the chip was asleep.
C10_ExtClkSet ==
    (op = "set_ext_clock" /\ result = "Ok") =>
        /\ HasBit(mode1, MODE1_EXTCLK)
        /\ \E i \in WritesTo(PCA9685_MODE1) :
               /\ HasBit(log[i].data[1], MODE1_EXTCLK)
               /\ HasBit(log[i].mode1, MODE1_SLEEP)

\* C11: get_prescale changes no chip register; and called after a
\* set_ext_clock(p), begin(p) or set_pwm_freq that returned Ok, it returns,
\* when the bus accepts its read, the PRESCALE value that call wrote, which
\* is p for set_ext_clock(p) and begin(p) with p in 3..255.
C11_RoundTrip ==
    [][ op' = "get_prescale" =>
          /\ <<mode1', mode2', prescale_reg', led'>>
                 = <<mode1, mode2, prescale_reg, led>>
          /\ ( /\ op \in {"set_ext_clock", "begin", "set_pwm_freq"}
               /\ result = "Ok"
               /\ result' = "Ok" ) =>
                 /\ WritesTo(PCA9685_PRESCALE) # {}
                 /\ \A i \in WritesTo(PCA9685_PRESCALE) : ret' = log[i].data[1]
                 /\ (op \in {"set_ext_clock", "begin"} /\ args[1] # 0)
                        => ret' = args[1]
      ]_vars

\* C11 witness: get_prescale has returned 255 from a chip whose PRESCALE held
\* 30 at construction and whose MODE1 a reset has left at 0x80.
C11_Witness ==
    /\ op = "get_prescale" /\ result = "Ok" /\ ret = 255
    /\ mode1 = MODE1_RESTART
    /\ prescale_reg = 255

\* C12: when begin returns Ok, for prescale 0 or 3..255 and every MODE1 value
\* at the call, the chip's MODE1 SLEEP bit is clear.
C12_BeginLeavesAwake ==
    (op = "begin" /\ result = "Ok") => ~HasBit(mode1, MODE1_SLEEP)

\* C13: set_pwm_freq panics without any bus transaction for every frequency
\* not strictly between 1 and 3052, the values 1 and 3052 included, and
\* issues bus transactions for every frequency strictly between them.
C13_FreqStrictlyInside ==
    op = "set_pwm_freq" =>
        IF 1 < args[1] /\ args[1] < 3052
        THEN log # <<>>
        ELSE result = "Panic" /\ log = <<>>

\* C14: a call in which the bus rejects a transaction returns the error,
\* issues nothing after the rejected transaction (no retry, no later step, no
\* delay) and leaves the tracked oscillator_freq as it was.
C14_FailureSurfaced ==
    [][ (\E i \in DOMAIN log' : ~log'[i].ok) =>
          /\ result' = "Err"
          /\ ~log'[Len(log')].ok
          /\ \A i \in 1 .. (Len(log') - 1) : log'[i].ok
          /\ oscillator_freq' = oscillator_freq
      ]_vars

\* C14 witness: begin, with the oscillator frequency set to 50 MHz, has
\* failed in the MODE1 write of reset after set_ext_clock succeeded.
C14_Witness ==
    /\ op = "begin" /\ result = "Err"
    /\ Len(log) = 6 /\ ~log[6].ok
    /\ log[6].kind = "write" /\ log[6].data = <<MODE1_RESTART>>
    /\ oscillator_freq = 50000000

\* C15: after begin returns Ok, and after a set_pwm_freq that returns Ok,
\* the chip's MODE1 AI bit is set.
C15_AutoIncrementOn ==
    (op \in {"begin", "set_pwm_freq"} /\ result = "Ok") =>
        HasBit(mode1, MODE1_AI)

\* C16: in a call other than wakeup, a MODE1 write that takes the chip from
\* asleep to awake is followed by a delay, whatever comes after it; so it is
\* neither the last thing the call does nor followed by a bus transaction.
C16_DelayAfterWake ==
    op # "wakeup" =>
        \A i \in WritesTo(PCA9685_MODE1) :
            ( /\ log[i].ok
              /\ HasBit(log[i].mode1, MODE1_SLEEP)
              /\ ~HasBit(log[i].data[1], MODE1_SLEEP) ) =>
                /\ i < Len(log)
                /\ log[i + 1].kind = "delay"
                /\ 1000 * log[i + 1].data[1] >= 500

\* the byte v with the bit of mask set, and with it cleared
C17_WithBit(v, mask) == IF (v \div mask) % 2 = 1 THEN v ELSE v + mask
C17_WithoutBit(v, mask) == IF (v \div mask) % 2 = 1 THEN v - mask ELSE v

\* C17: sleep and wakeup each issue one MODE1 read and then at most one
\* write, a one-byte write to MODE1 of the value read with SLEEP set (sleep)
\* or cleared (wakeup) and the other bits as read; they write no other
\* register (MODE2, PRESCALE and the channel registers stay as OneInit set
\* them), and wakeup has no delay.
C17_OnlySleepBit ==
    op \in {"sleep", "wakeup"} =>
        /\ mode2 = MODE2_OUTDRV /\ prescale_reg = 30 /\ DOMAIN led = {}
        /\ log # <<>>
        /\ log[1].kind = "read" /\ log[1].reg = PCA9685_MODE1
        /\ \A i \in DOMAIN log : log[i].kind = "read" => i = 1
        /\ Cardinality(WriteIdx) <= 1
        /\ \A i \in WriteIdx :
               /\ i = 2
               /\ log[i].reg = PCA9685_MODE1
               /\ log[i].data =
                      << IF op = "sleep"
                         THEN C17_WithBit(log[1].data[1], MODE1_SLEEP)
                         ELSE C17_WithoutBit(log[1].data[1], MODE1_SLEEP) >>
        /\ result = "Ok" => WriteIdx # {}
        /\ op = "wakeup" => \A i \in DOMAIN log : log[i].kind # "delay"
        /\ op = "sleep" => \A i \in DOMAIN log : log[i].kind = "delay" => i = 3

\* C17 witness: wakeup has read MODE1 = 0xFF and left the chip at 0xEF.
C17_Witness ==
    /\ op = "wakeup" /\ result = "Ok"
    /\ log[1].data = <<255>>
    /\ mode1 = 239
    /\ Len(log) = 2

\* C18: the MODE1 value set_pwm_freq writes to enter sleep is the value it
\* read with RESTART cleared, SLEEP set and every other bit as read, the
\* newmode of set_ext_clock, for every MODE1 value read.
C18_SleepWriteMasksRestart ==
    (op = "set_pwm_freq" /\ log # <<>> /\ log[1].ok) =>
        /\ Len(log) >= 2
        /\ log[2].kind = "write" /\ log[2].reg = PCA9685_MODE1
        /\ log[2].data = <<SleepMode(log[1].data[1])>>

\* C19: for a channel k in 0..15, set_pwm issues exactly one transaction, a
\* write starting at 0x06 + 4k that carries ON-low, ON-high, OFF-low,
\* OFF-high; MODE1, MODE2, PRESCALE and the registers of the other channels
\* keep their values; and when the write is accepted with auto-increment on,
\* the ON and OFF values held by the channel's four registers are the
\* arguments.
C19_SetPwmFrame ==
    [][ (op' = "set_pwm" /\ args'[1] <= 15) =>
          LET base == PCA9685_LED0_ON_L + 4 * args'[1]
              on   == args'[2]
              off  == args'[3]
          IN  /\ Len(log') = 1
              /\ log'[1].kind = "write"
              /\ log'[1].reg = base
              /\ log'[1].data =
                     <<on % 256, on \div 256, off % 256, off \div 256>>
              /\ <<mode1', mode2', prescale_reg'>>
                     = <<mode1, mode2, prescale_reg>>
              /\ \A a \in LedRegs \ (base .. (base + 3)) :
                     LedLoad(led', a) = LedLoad(led, a)
              /\ result' # "Ok" => led' = led
              /\ (result' = "Ok" /\ HasBit(mode1, MODE1_AI)) =>
                     /\ LedLoad(led', base)
                            + 256 * LedLoad(led', base + 1) = on
                     /\ LedLoad(led', base + 2)
                            + 256 * LedLoad(led', base + 3) = off
      ]_vars

\* C19 witness: with auto-increment on, set_pwm(15, 291, 1110) has filled
\* the last four channel registers, next to a register still holding 0xAA.
C19_Witness ==
    /\ op = "set_pwm" /\ args = <<15, 291, 1110>> /\ result = "Ok"
    /\ HasBit(mode1, MODE1_AI)
    /\ LedLoad(led, 65) = 170
    /\ <<LedLoad(led, 66), LedLoad(led, 67), LedLoad(led, 68), LedLoad(led, 69)>>
           = <<35, 1, 86, 4>>

\* C20: with oscillator_freq = 25,000,000, a channel in 0..15 and a PRESCALE
\* register value in 3..255, write_micros does not panic.
C20_WriteMicrosNoPanic ==
    ( /\ op = "write_micros"
      /\ args[1] <= 15
      /\ oscillator_freq = FREQUENCY_OSCILLATOR
      /\ log # <<>> /\ log[1].ok
      /\ log[1].data[1] >= PCA9685_PRESCALE_MIN
      /\ log[1].data[1] <= PCA9685_PRESCALE_MAX ) => result # "Panic"

=============================================================================
